---- MODULE Spec2Model ----
(***************************************************************************)
(* Model of beep/structure/cli.py: the batch structuring entry point       *)
(* process_file_list_from_json and the filename dispatcher auto_load.      *)
(*                                                                         *)
(* A filename is a record [dir, base, ext, matches]: the directory part,   *)
(* the base name without extension, the extension, and the set of          *)
(* configured file patterns that re.match accepts for it (the patterns     *)
(* themselves live in beep.conversion_schemas).                            *)
(***************************************************************************)
EXTENDS Integers, Sequences, FiniteSets, TLC

\* Longest manifest sequence explored.
MaxLen == 3

None == "None"

\* A variable that holds a dict or nothing: <<>> is nothing, <<d>> is d.
Nothing == <<>>
Just(d) == <<d>>
The(v) == v[1]

\* ------------------------------------------------------------------------
\* auto_load: the dispatcher
\* ------------------------------------------------------------------------

\* The seven file patterns imported from beep.conversion_schemas.
Patterns ==
    {"ARBIN", "FastCharge", "MACCOR", "xTesladiag", "INDIGO", "BIOLOGIC", "NEWARE"}

\* re.match(CONFIG["file_pattern"], filename)
re_match(pattern, filename) == pattern \in filename.matches

NoMatch == "ValueError"

\* Mutation of auto_load: the Maccor branch is tested before the Arbin one.
auto_load_maccor_first(filename) ==
    IF re_match("MACCOR", filename) \/ re_match("xTesladiag", filename)
        THEN "MaccorDatapath"
    ELSE IF re_match("ARBIN", filename) \/ re_match("FastCharge", filename)
        THEN "ArbinDatapath"
    ELSE IF re_match("INDIGO", filename)
        THEN "IndigoDatapath"
    ELSE IF re_match("BIOLOGIC", filename)
        THEN "BiologicDatapath"
    ELSE IF re_match("NEWARE", filename)
        THEN "NewareDatapath"
    ELSE NoMatch

\* The if/elif chain of auto_load: the datapath class whose from_file is
\* called, or NoMatch when the final else raises ValueError.
auto_load(filename) ==
    IF re_match("ARBIN", filename) \/ re_match("FastCharge", filename)
        THEN "ArbinDatapath"
    ELSE IF re_match("MACCOR", filename) \/ re_match("xTesladiag", filename)
        THEN "MaccorDatapath"
    ELSE IF re_match("INDIGO", filename)
        THEN "IndigoDatapath"
    ELSE IF re_match("BIOLOGIC", filename)
        THEN "BiologicDatapath"
    ELSE IF re_match("NEWARE", filename)
        THEN "NewareDatapath"
    ELSE NoMatch

\* ------------------------------------------------------------------------
\* Output location of a structured run
\* ------------------------------------------------------------------------

\* os.path.join(os.environ.get("BEEP_PROCESSING_DIR", "/"), processed_dir)
processed_dir == "/data-share/structure/"

\* os.path.splitext(os.path.basename(filename))[0], then + ".json"
new_filename(filename) == [base |-> filename.base, ext |-> "json"]

\* beep.collate.add_suffix_to_filename: suffix goes before the extension.
add_suffix_to_filename(fn, suffix) == [base |-> fn.base \o suffix, ext |-> fn.ext]

\* os.path.abspath(os.path.join(processed_dir, new_filename))
structured_run_loc(filename) ==
    LET fn == add_suffix_to_filename(new_filename(filename), "_structure")
    IN  [dir |-> processed_dir, base |-> fn.base, ext |-> fn.ext]

\* ------------------------------------------------------------------------
\* Inputs
\* ------------------------------------------------------------------------

File(d, b, e, m) == [dir |-> d, base |-> b, ext |-> e, matches |-> m]

\* Filenames of the batch runs: one Arbin file, one file that two patterns
\* accept, one FastCharge file with the base name of the first, and one
\* file no pattern accepts.
Filenames ==
    { File("raw", "cellA", "csv", {"ARBIN"}),
      File("raw", "cellB", "txt", {"MACCOR", "NEWARE"}),
      File("old", "cellA", "res", {"FastCharge"}),
      File("raw", "notes", "txt", {}) }

Validities == {"valid", "invalid"}

RunIds == {41, 42}

SeqsUpTo(S, k) == UNION {[1..m -> S] : m \in 0..k}

\* Filenames of the dispatch runs: every combination of accepted patterns.
DispatchNames == {File("raw", "cell", "dat", m) : m \in SUBSET Patterns}

VARIABLES
    file_list_data,          \* the loaded input manifest
    pc,                      \* position in process_file_list_from_json
    idx,                     \* 1-based position of the loop in the zip
    dp,                      \* the datapath being processed, or None
    processed_file_list,
    processed_run_list,
    processed_result_list,
    processed_message_list,
    invalid_file_list,
    output_json,             \* the dict built after the loop, or Nothing
    disk,                    \* files written by dumpfn, in order
    calls,                   \* collaborator calls made, in order
    warnings,                \* number of logger.warning calls
    sink,                    \* records handed to put_workflow_outputs
    error,                   \* exception that ended the run, or None
    returned,                \* the manifest that was returned, or Nothing
    probe,                   \* dispatch runs: [file, selected, outcome], or Nothing
    s_bound                  \* whether the module global s is bound at call time

vars == <<file_list_data, pc, idx, dp, processed_file_list, processed_run_list,
          processed_result_list, processed_message_list, invalid_file_list,
          output_json, disk, calls, warnings, sink, error, returned, probe, s_bound>>

batch_vars == <<file_list_data, pc, idx, dp, processed_file_list,
                processed_run_list, processed_result_list,
                processed_message_list, invalid_file_list, output_json, disk,
                calls, warnings, sink, error, returned, s_bound>>

file_list == file_list_data.file_list
validities == file_list_data.validity
run_ids == file_list_data.run_list

Min2(a, b) == IF a <= b THEN a ELSE b

\* Number of triples zip(file_list, validities, run_ids) yields.
zip_len(fl, vl, rl) == Min2(Len(fl), Min2(Len(vl), Len(rl)))

N == zip_len(file_list, validities, run_ids)

\* ------------------------------------------------------------------------
\* process_file_list_from_json
\* ------------------------------------------------------------------------

\* if validity == "valid":
is_valid(validity) == validity = "valid"

\* Mutation of dumpfn: the write is dropped.
dumpfn_dropped(d, obj, loc) == d

\* dumpfn(dp, structured_run_loc): the object is written at the location.
dumpfn(d, obj, loc) == Append(d, [loc |-> loc, cls |-> obj.cls, file |-> obj.file])

\* The dict built after the loop.
build_output_json(fl, rl, resl, ml, il) ==
    [file_list |-> fl, run_list |-> rl, result_list |-> resl,
     message_list |-> ml, invalid_file_list |-> il]

\* if file_list_size > 1 or file_list_size == 0: logger.warning(...)
size_warns(file_list_size) == file_list_size > 1 \/ file_list_size = 0

\* Indexing [0] of a Python list raises IndexError when the list is empty.
index0_raises(oj) ==
    Len(oj.file_list) = 0 \/ Len(oj.run_list) = 0 \/ Len(oj.result_list) = 0

\* Mutation of output_data: the last elements are read, not the first.
output_data_last(oj) ==
    [filename |-> oj.file_list[Len(oj.file_list)],
     run_id   |-> oj.run_list[Len(oj.run_list)],
     result   |-> oj.result_list[Len(oj.result_list)]]

\* output_data: element 0 of the three processed lists (1 in TLA+).
output_data(oj) ==
    [filename |-> oj.file_list[1],
     run_id   |-> oj.run_list[1],
     result   |-> oj.result_list[1]]

Call(op, k) == [op |-> op, idx |-> k]

Raise(e) ==
    /\ pc' = "raised"
    /\ error' = e

\* State right after the five result lists are initialised, before the loop.
\* cli.py reads the global s at line 67 and never binds it: s_bound is
\* FALSE for the module as it stands and TRUE when whoever imports the
\* module has set the name.
Init ==
    /\ file_list_data \in [file_list : SeqsUpTo(Filenames, MaxLen),
                           validity  : SeqsUpTo(Validities, MaxLen),
                           run_list  : SeqsUpTo(RunIds, MaxLen)]
    /\ pc = "loop"
    /\ idx = 1
    /\ dp = None
    /\ processed_file_list = <<>>
    /\ processed_run_list = <<>>
    /\ processed_result_list = <<>>
    /\ processed_message_list = <<>>
    /\ invalid_file_list = <<>>
    /\ output_json = Nothing
    /\ disk = <<>>
    /\ calls = <<>>
    /\ warnings = 0
    /\ sink = <<>>
    /\ error = None
    /\ returned = Nothing
    /\ probe = Nothing
    /\ s_bound \in BOOLEAN

\* logger.info(..., extra=s) at the head of an iteration: the read of the
\* unbound global s raises NameError before the validity test.
LogRaises ==
    /\ pc = "loop"
    /\ idx <= N
    /\ ~s_bound
    /\ Raise("NameError")
    /\ UNCHANGED <<file_list_data, idx, dp, processed_file_list,
                   processed_run_list, processed_result_list,
                   processed_message_list, invalid_file_list, output_json,
                   disk, calls, warnings, sink, returned, probe, s_bound>>

\* Loop body, else branch: the entry is not valid.
SkipInvalid ==
    /\ pc = "loop"
    /\ idx <= N
    /\ s_bound
    /\ ~is_valid(validities[idx])
    /\ invalid_file_list' = Append(invalid_file_list, file_list[idx])
    /\ idx' = idx + 1
    /\ UNCHANGED <<file_list_data, pc, dp, processed_file_list,
                   processed_run_list, processed_result_list,
                   processed_message_list, output_json, disk, calls, warnings,
                   sink, error, returned, probe, s_bound>>

\* dp = auto_load(filename): a pattern matches and from_file returns, or no
\* pattern matches and ValueError leaves the function.
Load ==
    /\ pc = "loop"
    /\ idx <= N
    /\ s_bound
    /\ is_valid(validities[idx])
    /\ calls' = Append(calls, Call("auto_load", idx))
    /\ LET cls == auto_load(file_list[idx])
       IN  IF cls = NoMatch
           THEN /\ Raise("ValueError")
                /\ dp' = dp
           ELSE /\ dp' = [cls |-> cls, file |-> file_list[idx], structured |-> FALSE]
                /\ pc' = "structure"
                /\ error' = error
    /\ UNCHANGED <<file_list_data, idx, processed_file_list, processed_run_list,
                   processed_result_list, processed_message_list,
                   invalid_file_list, output_json, disk, warnings, sink,
                   returned, probe, s_bound>>

\* dp = auto_load(filename): a pattern matches but from_file raises.
LoadFails ==
    /\ pc = "loop"
    /\ idx <= N
    /\ s_bound
    /\ is_valid(validities[idx])
    /\ auto_load(file_list[idx]) # NoMatch
    /\ calls' = Append(calls, Call("auto_load", idx))
    /\ Raise("FromFileError")
    /\ UNCHANGED <<file_list_data, idx, dp, processed_file_list,
                   processed_run_list, processed_result_list,
                   processed_message_list, invalid_file_list, output_json,
                   disk, warnings, sink, returned, probe, s_bound>>

\* dp.structure() returns.
Structure ==
    /\ pc = "structure"
    /\ calls' = Append(calls, Call("structure", idx))
    /\ dp' = [dp EXCEPT !.structured = TRUE]
    /\ pc' = "dump"
    /\ UNCHANGED <<file_list_data, idx, processed_file_list, processed_run_list,
                   processed_result_list, processed_message_list,
                   invalid_file_list, output_json, disk, warnings, sink, error,
                   returned, probe, s_bound>>

\* dp.structure() raises.
StructureFails ==
    /\ pc = "structure"
    /\ calls' = Append(calls, Call("structure", idx))
    /\ Raise("StructureError")
    /\ UNCHANGED <<file_list_data, idx, dp, processed_file_list,
                   processed_run_list, processed_result_list,
                   processed_message_list, invalid_file_list, output_json,
                   disk, warnings, sink, returned, probe, s_bound>>

\* The output location is derived, dumpfn writes, the four lists grow.
Dump ==
    /\ pc = "dump"
    /\ LET loc == structured_run_loc(file_list[idx])
       IN  /\ disk' = dumpfn(disk, dp, loc)
           /\ processed_file_list' = Append(processed_file_list, loc)
    /\ calls' = Append(calls, Call("dumpfn", idx))
    /\ processed_run_list' = Append(processed_run_list, run_ids[idx])
    /\ processed_result_list' = Append(processed_result_list, "success")
    /\ processed_message_list' =
           Append(processed_message_list, [comment |-> "", error |-> ""])
    /\ dp' = None
    /\ idx' = idx + 1
    /\ pc' = "loop"
    /\ UNCHANGED <<file_list_data, invalid_file_list, output_json, warnings,
                   sink, error, returned, probe, s_bound>>

\* dumpfn raises: nothing is written, nothing is appended.
DumpFails ==
    /\ pc = "dump"
    /\ calls' = Append(calls, Call("dumpfn", idx))
    /\ Raise("DumpError")
    /\ UNCHANGED <<file_list_data, idx, dp, processed_file_list,
                   processed_run_list, processed_result_list,
                   processed_message_list, invalid_file_list, output_json,
                   disk, warnings, sink, returned, probe, s_bound>>

\* After the loop: build output_json, warn, read index 0, report, return.
Report ==
    /\ pc = "loop"
    /\ idx > N
    /\ LET oj == build_output_json(processed_file_list, processed_run_list,
                                   processed_result_list,
                                   processed_message_list, invalid_file_list)
       IN  /\ output_json' = Just(oj)
           /\ warnings' = IF size_warns(Len(oj.file_list))
                          THEN warnings + 1 ELSE warnings
           /\ IF index0_raises(oj)
              THEN /\ Raise("IndexError")
                   /\ UNCHANGED <<sink, returned>>
              ELSE /\ sink' = Append(sink, [data  |-> output_data(oj),
                                            label |-> "structuring"])
                   /\ returned' = Just(oj)
                   /\ pc' = "returned"
                   /\ error' = error
    /\ UNCHANGED <<file_list_data, idx, dp, processed_file_list,
                   processed_run_list, processed_result_list,
                   processed_message_list, invalid_file_list, disk, calls,
                   probe, s_bound>>

Next ==
    \/ LogRaises
    \/ SkipInvalid
    \/ Load
    \/ LoadFails
    \/ Structure
    \/ StructureFails
    \/ Dump
    \/ DumpFails
    \/ Report

Spec == Init /\ [][Next]_vars

\* ------------------------------------------------------------------------
\* auto_load on its own, over every combination of accepted patterns
\* ------------------------------------------------------------------------

DispatchInit ==
    /\ probe \in {Just(r) : r \in [file : DispatchNames, selected : {None},
                                   outcome : {"pending"}]}
    /\ file_list_data = [file_list |-> <<>>, validity |-> <<>>, run_list |-> <<>>]
    /\ pc = "idle"
    /\ idx = 1
    /\ dp = None
    /\ processed_file_list = <<>>
    /\ processed_run_list = <<>>
    /\ processed_result_list = <<>>
    /\ processed_message_list = <<>>
    /\ invalid_file_list = <<>>
    /\ output_json = Nothing
    /\ disk = <<>>
    /\ calls = <<>>
    /\ warnings = 0
    /\ sink = <<>>
    /\ error = None
    /\ returned = Nothing
    /\ s_bound = FALSE

\* auto_load(filename) returns a datapath or raises ValueError.
Dispatch ==
    /\ The(probe).outcome = "pending"
    /\ LET cls == auto_load(The(probe).file)
       IN  probe' = Just([The(probe) EXCEPT
                             !.selected = cls,
                             !.outcome = IF cls = NoMatch THEN "ValueError"
                                         ELSE "datapath"])
    /\ UNCHANGED batch_vars

\* auto_load(filename) selects a class whose from_file raises.
DispatchFromFileFails ==
    /\ The(probe).outcome = "pending"
    /\ auto_load(The(probe).file) # NoMatch
    /\ probe' = Just([The(probe) EXCEPT
                         !.selected = auto_load(The(probe).file),
                         !.outcome = "FromFileError"])
    /\ UNCHANGED batch_vars

DispatchNext ==
    \/ Dispatch
    \/ DispatchFromFileFails

SpecDispatch == DispatchInit /\ [][DispatchNext]_vars

\* ------------------------------------------------------------------------
\* Vocabulary of the properties
\* ------------------------------------------------------------------------

Range(q) == {q[k] : k \in DOMAIN q}

EqualLengths ==
    /\ Len(file_list) = Len(validities)
    /\ Len(validities) = Len(run_ids)

Recognized(f) == f.matches # {}

AllValid == \A k \in DOMAIN validities : validities[k] = "valid"

AllInvalid == \A k \in DOMAIN validities : validities[k] # "valid"

AllRecognized == \A k \in DOMAIN file_list : Recognized(file_list[k])

ValidRecognized ==
    \A k \in 1..N : validities[k] = "valid" => Recognized(file_list[k])

\* The run is over: the function returned or an exception left it.
Ended == pc \in {"returned", "raised"}

\* The loop ran to its end and output_json was built.
LoopDone == output_json # Nothing

\* A collaborator (from_file, structure, dumpfn) raised.
CollabFailed == error \in {"FromFileError", "StructureError", "DumpError"}

\* Positions of 1..k, in order, whose validity is ("valid" iff want).
RECURSIVE PositionsUpTo(_, _)
PositionsUpTo(k, want) ==
    IF k = 0 THEN <<>>
    ELSE LET r == PositionsUpTo(k - 1, want)
         IN  IF (validities[k] = "valid") = want THEN Append(r, k) ELSE r

\* Where the structured run of input file f is expected.
ExpectedLoc(f) ==
    [dir |-> "/data-share/structure/", base |-> f.base \o "_structure", ext |-> "json"]

\* ------------------------------------------------------------------------
\* Properties
\* ------------------------------------------------------------------------

\* C1: for every manifest of equal-length sequences, of any length
\* including zero, whose validities are all "valid" and whose filenames
\* are all recognized, the run (when no
\* collaborator raises) returns a manifest with an empty invalid_file_list
\* and file_list, run_list and result_list as long as the input file_list.
C1_AllValidSameLength ==
    (EqualLengths /\ AllValid /\ AllRecognized /\ Ended /\ ~CollabFailed) =>
        /\ pc = "returned"
        /\ The(returned).invalid_file_list = <<>>
        /\ Len(The(returned).file_list) = Len(file_list)
        /\ Len(The(returned).run_list) = Len(file_list)
        /\ Len(The(returned).result_list) = Len(file_list)

\* C2: for every manifest of equal-length sequences whose validities are
\* all other than "valid", the run produces a manifest whose invalid_file_list is the input file_list
\* and whose file_list, run_list and result_list are empty.
C2_AllInvalidPassThrough ==
    (EqualLengths /\ AllInvalid /\ Ended) =>
        /\ pc = "returned"
        /\ The(returned).invalid_file_list = file_list
        /\ The(returned).file_list = <<>>
        /\ The(returned).run_list = <<>>
        /\ The(returned).result_list = <<>>

\* C3: when the processed file list is empty after the loop, the read of
\* index 0 fails with an explicit EmptyBatchResult error, and nothing is
\* handed to the workflow sink.
C3_EmptyBatchResult ==
    (LoopDone /\ The(output_json).file_list = <<>>) =>
        /\ pc = "raised"
        /\ error = "EmptyBatchResult"
        /\ sink = <<>>

\* C4: when file_list, validity and run_list do not all have the same
\* length, the run fails at once with a manifest shape error: nothing is
\* dispatched, structured or serialized and no output list grows.
C4_ShapeErrorBeforeStart ==
    ~EqualLengths =>
        /\ calls = <<>>
        /\ disk = <<>>
        /\ processed_file_list = <<>>
        /\ processed_run_list = <<>>
        /\ processed_result_list = <<>>
        /\ processed_message_list = <<>>
        /\ invalid_file_list = <<>>
        /\ \/ pc = "loop" /\ idx = 1
           \/ pc = "raised" /\ error = "ManifestShapeError"

\* C5: when auto_load finds no pattern for the valid entry at position k,
\* only that file fails: every later valid, recognized entry is still
\* dispatched, structured and serialized (when no collaborator raises) and
\* the batch still returns its manifest.
C5_UnrecognizedConfined ==
    \A k \in 1..N :
        ( /\ validities[k] = "valid"
          /\ ~Recognized(file_list[k])
          /\ Call("auto_load", k) \in Range(calls)
          /\ Ended
          /\ ~CollabFailed ) =>
            /\ pc = "returned"
            /\ \A j \in (k + 1)..N :
                   (validities[j] = "valid" /\ Recognized(file_list[j])) =>
                       /\ Call("auto_load", j) \in Range(calls)
                       /\ Call("structure", j) \in Range(calls)
                       /\ Call("dumpfn", j) \in Range(calls)

\* C7: after the loop a warning is logged exactly when the number of
\* processed files is not 1, and in every case the run goes on without
\* raising: the workflow output is reported and the manifest returned.
C7_WarnAndProceed ==
    LoopDone =>
        /\ (warnings = 1) <=> (Len(The(output_json).file_list) # 1)
        /\ warnings \in {0, 1}
        /\ pc = "returned"
        /\ Len(sink) = 1
        /\ returned = output_json

\* The bindings of the dispatcher in the order the property names.
Registry ==
    << [patterns |-> {"ARBIN", "FastCharge"}, cls |-> "ArbinDatapath"],
       [patterns |-> {"MACCOR", "xTesladiag"}, cls |-> "MaccorDatapath"],
       [patterns |-> {"INDIGO"}, cls |-> "IndigoDatapath"],
       [patterns |-> {"BIOLOGIC"}, cls |-> "BiologicDatapath"],
       [patterns |-> {"NEWARE"}, cls |-> "NewareDatapath"] >>

Hits(f) == {k \in DOMAIN Registry : Registry[k].patterns \cap f.matches # {}}

Earliest(S) == CHOOSE k \in S : \A j \in S : k <= j

\* C6: auto_load selects the class of the earliest binding, in the order
\* (Arbin or FastCharge), (Maccor or xTesladiag), Indigo, Biologic, Neware,
\* whose pattern matches the filename, and raises ValueError for no match
\* exactly when no pattern matches.
C6_FirstMatchWins ==
    (probe # Nothing /\ The(probe).outcome # "pending") =>
        IF Hits(The(probe).file) = {}
        THEN The(probe).outcome = "ValueError" /\ The(probe).selected = NoMatch
        ELSE /\ The(probe).selected = Registry[Earliest(Hits(The(probe).file))].cls
             /\ The(probe).outcome # "ValueError"

\* A filename that the Neware, Maccor and FastCharge patterns all accept
\* was dispatched to ArbinDatapath.
C6_Witness ==
    /\ probe # Nothing
    /\ The(probe).outcome = "datapath"
    /\ The(probe).file.matches = {"NEWARE", "MACCOR", "FastCharge"}
    /\ The(probe).selected = "ArbinDatapath"

\* The entries 1..k are partitioned into il (the invalid filenames, in
\* order) and fl/rl/resl/ml (one correlated record per valid entry, in order).
Partitioned(k, fl, rl, resl, ml, il) ==
    LET vp == PositionsUpTo(k, TRUE)
        ip == PositionsUpTo(k, FALSE)
    IN  /\ il = [m \in 1..Len(ip) |-> file_list[ip[m]]]
        /\ Len(fl) = Len(vp)
        /\ Len(rl) = Len(vp)
        /\ Len(resl) = Len(vp)
        /\ Len(ml) = Len(vp)
        /\ \A m \in 1..Len(vp) :
               /\ fl[m] = ExpectedLoc(file_list[vp[m]])
               /\ rl[m] = run_ids[vp[m]]
               /\ resl[m] = "success"
               /\ ml[m] = [comment |-> "", error |-> ""]

\* C8: for a manifest of equal-length sequences whose valid filenames are
\* all recognized, the loop splits the entries by validity, keeping order
\* and correlation: once the run is over (and no collaborator raised),
\* invalid_file_list holds the filenames whose validity is not "valid", the
\* i-th records of the file, run, result and message lists belong to the
\* i-th valid entry, and no collaborator was called for an entry that is
\* not valid.
C8_PartitionInOrder ==
    (EqualLengths /\ ValidRecognized /\ Ended /\ ~CollabFailed) =>
        /\ \A c \in Range(calls) : validities[c.idx] = "valid"
        /\ Partitioned(Len(file_list), processed_file_list, processed_run_list,
                       processed_result_list, processed_message_list,
                       invalid_file_list)

\* What the loop does keep: the iterations completed so far have split
\* their entries in order, and so has the dict built after the loop.
PartitionedSoFar ==
    /\ \A c \in Range(calls) : validities[c.idx] = "valid"
    /\ pc = "loop" =>
           Partitioned(idx - 1, processed_file_list, processed_run_list,
                       processed_result_list, processed_message_list,
                       invalid_file_list)
    /\ LoopDone =>
           Partitioned(N, The(output_json).file_list,
                       The(output_json).run_list,
                       The(output_json).result_list,
                       The(output_json).message_list,
                       The(output_json).invalid_file_list)

\* C9: in every run that returns, the sink has received exactly one record,
\* labelled "structuring", handed over after the whole loop, whose filename,
\* run_id and result are element 0 of the returned file_list, run_list and
\* result_list, that is those of the first valid input entry; before the
\* return the sink has received nothing.
C9_OneSinkRecord ==
    /\ pc # "returned" => sink = <<>>
    /\ pc = "returned" =>
           LET first == PositionsUpTo(N, TRUE)[1]
           IN  /\ Len(sink) = 1
               /\ sink[1].label = "structuring"
               /\ idx = N + 1
               /\ Len(The(returned).file_list) + Len(The(returned).invalid_file_list) = N
               /\ sink[1].data.filename = The(returned).file_list[1]
               /\ sink[1].data.run_id = The(returned).run_list[1]
               /\ sink[1].data.result = The(returned).result_list[1]
               /\ sink[1].data.filename = ExpectedLoc(file_list[first])
               /\ sink[1].data.run_id = run_ids[first]
               /\ sink[1].data.result = "success"

\* With the global s bound, a run returned after processing three files, the first and the last of
\* which differ in output location and run id.
C9_Witness ==
    /\ s_bound
    /\ pc = "returned"
    /\ Len(The(returned).file_list) = 3
    /\ The(returned).file_list[1] # The(returned).file_list[3]
    /\ The(returned).run_list[1] # The(returned).run_list[3]
    /\ Len(sink) = 1

Rank(op) == CASE op = "auto_load" -> 1 [] op = "structure" -> 2 [] op = "dumpfn" -> 3

\* C10: files are processed one at a time in manifest order, and there is
\* no rollback: when auto_load, structure() or dumpfn fails for the valid
\* entry at position k, the outputs of all earlier valid entries are on
\* disk, no manifest is returned and nothing reaches the workflow sink.
C10_SequentialNoRollback ==
    /\ \A p, q \in DOMAIN calls :
           p < q =>
               \/ calls[p].idx < calls[q].idx
               \/ calls[p].idx = calls[q].idx /\ Rank(calls[p].op) < Rank(calls[q].op)
    /\ \A q \in DOMAIN calls :
           calls[q].op = "auto_load" =>
               \A k \in 1..(calls[q].idx - 1) :
                   validities[k] = "valid" =>
                       \E p \in 1..(q - 1) : calls[p] = Call("dumpfn", k)
    /\ (pc = "raised" /\ (error = "ValueError" \/ CollabFailed)) =>
           LET earlier == PositionsUpTo(idx - 1, TRUE)
           IN  /\ validities[idx] = "valid"
               /\ Len(disk) = Len(earlier)
               /\ \A m \in 1..Len(earlier) :
                      /\ disk[m].loc = ExpectedLoc(file_list[earlier[m]])
                      /\ disk[m].file = file_list[earlier[m]]
               /\ output_json = Nothing
               /\ returned = Nothing
               /\ sink = <<>>

\* With the global s bound, structure() failed for the third entry after two earlier valid entries
\* had been written.
C10_Witness ==
    /\ s_bound
    /\ pc = "raised"
    /\ error = "StructureError"
    /\ idx = 3
    /\ Len(disk) = 2
    /\ validities[1] = "valid"
    /\ validities[2] = "valid"

====
